---- MODULE Spec2Model ----
(***************************************************************************)
(* A model of automatic_citation_checker.py: the reference-section         *)
(* locator, the reference segmenter, the normaliser and similarity scorer, *)
(* the per-reference lookup chain of check_references and the result       *)
(* classifier.                                                             *)
(*                                                                         *)
(* A Python str is a sequence of one-character strings.  Page indices and  *)
(* Python list indices are 0-based in the source; sequences here are       *)
(* 1-based, and every operator that returns a page index says which base   *)
(* it uses.                                                                *)
(***************************************************************************)
EXTENDS Integers, Sequences, FiniteSets, TLC

VARIABLES
    pc,             \* position of the run inside the function being executed
    references,     \* check_references: the input list of reference strings
    idx,            \* check_references: 1-based position of the for loop
    citations,      \* check_references: the list `citations`
    sources,        \* check_references: the list `sources`
    edit_distances, \* check_references: the list `edit_distances`
    driver,         \* the Selenium session: "none", "open" or "closed"
    calls,          \* history: the lookups made, in order, each with the
                    \* reference it was made for, the source asked and
                    \* whether the source had a citation to give
    max_edit_distance, \* report_results: args.max_edit_distance
    not_found,      \* report_results: row labels of the not_found frame
    no_year,        \* report_results: row labels of the no_year frame
    filtered,       \* report_results: row labels of the filtered frame, in order
    flagged,        \* report_results: row labels of the flagged frame, in order
    arg_a,          \* edit_distance: first argument
    arg_b,          \* edit_distance: second argument
    dist_ab,        \* edit_distance(a, b)
    dist_ba,        \* edit_distance(b, a)
    dist_aa,        \* edit_distance(a, a)
    pages,          \* the PDF: the text of each page, in order
    page_range,     \* find_references_section_by_text: the result
    segmented,      \* extract_references: the result
    args,           \* load_or_compute_results: args.overwrite_csv and
                    \* args.references_page_range
    csv,            \* the file at csv_path when load_or_compute_results starts
    df,             \* load_or_compute_results: the frame `df`
    saved,          \* the frame df.to_csv wrote to csv_path, if it was called
    recomputed      \* history: the `if df is None:` branch was entered

vars == <<pc, references, idx, citations, sources, edit_distances, driver,
          calls, max_edit_distance, not_found, no_year, filtered, flagged,
          arg_a, arg_b, dist_ab, dist_ba, dist_aa, pages, page_range,
          segmented, args, csv, df, saved, recomputed>>

pipelineVars == <<references, idx, citations, sources, edit_distances,
                  driver, calls>>
reportVars == <<max_edit_distance, not_found, no_year, filtered, flagged>>
distVars == <<arg_a, arg_b, dist_ab, dist_ba, dist_aa>>
pdfVars == <<pages, page_range, segmented>>
cacheVars == <<args, csv, df, saved, recomputed>>

(***************************************************************************)
(* Characters and the str methods the program uses.                        *)
(***************************************************************************)

\* string.digits, as \d matches them
Digits == {"0", "1", "2", "3", "4", "5", "6", "7", "8", "9"}

LowerLetters == <<"a", "b", "c", "d", "e", "f", "g", "h", "i", "j", "k", "l",
                  "m", "n", "o", "p", "q", "r", "s", "t", "u", "v", "w", "x",
                  "y", "z">>

UpperLetters == <<"A", "B", "C", "D", "E", "F", "G", "H", "I", "J", "K", "L",
                  "M", "N", "O", "P", "Q", "R", "S", "T", "U", "V", "W", "X",
                  "Y", "Z">>

\* string.punctuation (without the backquote, which no string of the module
\* holds)
Punctuation == {"!", "\"", "#", "$", "%", "&", "'", "(", ")", "*", "+", ",",
                "-", ".", "/", ":", ";", "<", "=", ">", "?", "@", "[", "\\",
                "]", "^", "_", "{", "|", "}", "~"}

\* what \s matches and what str.strip() removes
Whitespace == {" ", "\t", "\n", "\r", "\f"}

IsDigit(c) == c \in Digits

IsSpace(c) == c \in Whitespace

IsLetter(c) == \E k \in 1..26 : c = LowerLetters[k] \/ c = UpperLetters[k]

\* what \w matches; \b is a change of IsWord between neighbours
IsWord(c) == IsLetter(c) \/ IsDigit(c) \/ c = "_"

\* str.lower() on one character
LowerChar(c) ==
    IF \E k \in 1..26 : c = UpperLetters[k]
    THEN LowerLetters[CHOOSE k \in 1..26 : c = UpperLetters[k]]
    ELSE c

\* str.lower()
Lower(s) == [k \in 1..Len(s) |-> LowerChar(s[k])]

\* str.startswith(prefix)
StartsWith(s, prefix) ==
    /\ Len(prefix) <= Len(s)
    /\ \A k \in 1..Len(prefix) : s[k] = prefix[k]

\* s[lo-1:] of Python, lo 1-based
Drop(s, lo) == SubSeq(s, lo, Len(s))

\* str.strip(): leading and trailing whitespace removed
Strip(s) ==
    LET keep == {k \in 1..Len(s) : ~IsSpace(s[k])}
    IN  IF keep = {} THEN <<>>
        ELSE LET first == CHOOSE k \in keep : \A m \in keep : k <= m
                 last  == CHOOSE k \in keep : \A m \in keep : k >= m
             IN  SubSeq(s, first, last)

\* ref.translate(str.maketrans("", "", string.punctuation))
RECURSIVE DeletePunctuation(_)
DeletePunctuation(s) ==
    IF s = <<>> THEN <<>>
    ELSE IF Head(s) \in Punctuation THEN DeletePunctuation(Tail(s))
    ELSE <<Head(s)>> \o DeletePunctuation(Tail(s))

\* re.sub(r"\s+", " ", s): every maximal whitespace run becomes one space
RECURSIVE CollapseWhitespace(_)
CollapseWhitespace(s) ==
    IF s = <<>> THEN <<>>
    ELSE IF IsSpace(Head(s))
         THEN IF Len(s) > 1 /\ IsSpace(s[2])
              THEN CollapseWhitespace(Tail(s))
              ELSE <<" ">> \o CollapseWhitespace(Tail(s))
    ELSE <<Head(s)>> \o CollapseWhitespace(Tail(s))

\* the concatenation of a sequence of strings
RECURSIVE Concat(_)
Concat(ss) == IF ss = <<>> THEN <<>> ELSE Head(ss) \o Concat(Tail(ss))

\* sep.join(ss)
RECURSIVE Join(_, _)
Join(sep, ss) ==
    IF ss = <<>> THEN <<>>
    ELSE IF Len(ss) = 1 THEN ss[1]
    ELSE ss[1] \o sep \o Join(sep, Tail(ss))

Max(x, y) == IF x >= y THEN x ELSE y

(***************************************************************************)
(* extract_apa_title, normalize_reference: the two regular expressions of  *)
(* extract_apa_title are matched the way Python's backtracking matcher     *)
(* matches them (leftmost start, greedy \s*, lazy .+?).                    *)
(***************************************************************************)

\* \(\d{4}\) matches s at position p
ParenYearAt(s, p) ==
    /\ p >= 1
    /\ p + 5 <= Len(s)
    /\ s[p] = "("
    /\ \A k \in 1..4 : IsDigit(s[p + k])
    /\ s[p + 5] = ")"

\* HasYearToken with the two \b left out of the pattern
HasYearTokenUnbounded(ref) ==
    \E p \in 1..Len(ref) :
        /\ p + 3 <= Len(ref)
        /\ \A k \in 0..3 : IsDigit(ref[p + k])

\* re.search(r"\b\d{4}\b", ref) finds a match
HasYearToken(ref) ==
    \E p \in 1..Len(ref) :
        /\ p + 3 <= Len(ref)
        /\ \A k \in 0..3 : IsDigit(ref[p + k])
        /\ (p = 1 \/ ~IsWord(ref[p - 1]))
        /\ (p + 3 = Len(ref) \/ ~IsWord(ref[p + 4]))

\* ^(.+?)\s*\(\d{4}\) matches with group 1 = s[1..k]
AuthorMatches(s, k) ==
    /\ k >= 1
    /\ k <= Len(s)
    /\ \A q \in 1..k : s[q] # "\n"
    /\ \E j \in k..Len(s) :
          /\ \A q \in (k + 1)..j : IsSpace(s[q])
          /\ ParenYearAt(s, j + 1)

\* group 1 of re.search(r"^(.+?)\s*\(\d{4}\)", reference), stripped; the lazy
\* .+? takes the shortest prefix; found is FALSE when there is no match.
AuthorPrefix(reference) ==
    LET ks == {k \in 1..Len(reference) : AuthorMatches(reference, k)}
    IN  IF ks = {} THEN [found |-> FALSE, text |-> <<>>]
        ELSE LET k == CHOOSE x \in ks : \A y \in ks : x <= y
             IN  [found |-> TRUE, text |-> Strip(SubSeq(reference, 1, k))]

\* \(\d{4}\)\.\s*(.+?)\.\s matches at p with \s* taking w characters and
\* group 1 taking m characters
TitleMatches(s, p, w, m) ==
    /\ ParenYearAt(s, p)
    /\ p + 6 <= Len(s)
    /\ s[p + 6] = "."
    /\ w >= 0
    /\ m >= 1
    /\ p + 6 + w + m + 2 <= Len(s)
    /\ \A q \in (p + 7)..(p + 6 + w) : IsSpace(s[q])
    /\ \A q \in (p + 7 + w)..(p + 6 + w + m) : s[q] # "\n"
    /\ s[p + 6 + w + m + 1] = "."
    /\ IsSpace(s[p + 6 + w + m + 2])

\* group 1 of re.search(r"\(\d{4}\)\.\s*(.+?)\.\s", reference), stripped: the
\* leftmost start, then the longest \s* that lets the rest match, then the
\* shortest .+?
TitleFragment(reference) ==
    LET n  == Len(reference)
        ps == {p \in 1..n : /\ ParenYearAt(reference, p)
                            /\ \E w \in 0..(n - p), m \in 1..(n - p) :
                                  TitleMatches(reference, p, w, m)}
    IN  IF ps = {} THEN [found |-> FALSE, text |-> <<>>]
        ELSE LET p  == CHOOSE x \in ps : \A y \in ps : x <= y
                 ws == {w \in 0..(n - p) : \E m \in 1..(n - p) :
                                        TitleMatches(reference, p, w, m)}
                 w  == CHOOSE x \in ws : \A y \in ws : x >= y
                 ms == {m \in 1..(n - p) : TitleMatches(reference, p, w, m)}
                 m  == CHOOSE x \in ms : \A y \in ms : x <= y
             IN  [found |-> TRUE,
                  text  |-> Strip(SubSeq(reference, p + 7 + w, p + 6 + w + m))]

\* extract_apa_title(reference): the author prefix, then " " and the title
extract_apa_title(reference) ==
    LET author == AuthorPrefix(reference)
        title  == TitleFragment(reference)
    IN  (IF author.found THEN author.text ELSE <<>>)
        \o (IF title.found THEN <<" ">> \o title.text ELSE <<>>)

\* normalize_reference without the removal of punctuation
normalize_reference_keeping_punctuation(ref) ==
    Strip(CollapseWhitespace(Lower(ref)))

\* normalize_reference(ref)
normalize_reference(ref) ==
    Strip(CollapseWhitespace(DeletePunctuation(Lower(ref))))

(***************************************************************************)
(* difflib.SequenceMatcher(None, a, b).ratio(), for strings shorter than   *)
(* the 200 characters at which difflib's autojunk heuristic starts, and    *)
(* edit_distance.  Positions are 1-based and ranges inclusive.             *)
(***************************************************************************)

\* j2len of find_longest_match: the length of the common run that ends at
\* a[i], b[j] and starts no earlier than a[alo], b[blo]
RECURSIVE RunLength(_, _, _, _, _, _)
RunLength(a, b, i, j, alo, blo) ==
    IF i < alo \/ j < blo THEN 0
    ELSE IF a[i] # b[j] THEN 0
    ELSE 1 + RunLength(a, b, i - 1, j - 1, alo, blo)

\* SequenceMatcher.find_longest_match(alo, ahi, blo, bhi): the loops visit i
\* ascending and j ascending and keep a block only when it is strictly longer,
\* so the block kept is the longest one, first in (i, j) order
find_longest_match(a, b, alo, ahi, blo, bhi) ==
    LET runs == {<<RunLength(a, b, i, j, alo, blo), i, j>> :
                    i \in alo..ahi, j \in blo..bhi}
        first(x, y) == \/ x[1] > y[1]
                       \/ x[1] = y[1] /\ x[2] < y[2]
                       \/ x[1] = y[1] /\ x[2] = y[2] /\ x[3] <= y[3]
    IN  IF \A r \in runs : r[1] = 0 THEN [i |-> alo, j |-> blo, size |-> 0]
        ELSE LET r == CHOOSE x \in runs : \A y \in runs : first(x, y)
             IN  [i |-> r[2] - r[1] + 1, j |-> r[3] - r[1] + 1, size |-> r[1]]

\* sum of the sizes of SequenceMatcher.get_matching_blocks(): the longest
\* block, then the same to its left and to its right
RECURSIVE MatchedCount(_, _, _, _, _, _)
MatchedCount(a, b, alo, ahi, blo, bhi) ==
    LET m == find_longest_match(a, b, alo, ahi, blo, bhi)
    IN  IF m.size = 0 THEN 0
        ELSE m.size
             + (IF alo < m.i /\ blo < m.j
                THEN MatchedCount(a, b, alo, m.i - 1, blo, m.j - 1) ELSE 0)
             + (IF m.i + m.size <= ahi /\ m.j + m.size <= bhi
                THEN MatchedCount(a, b, m.i + m.size, ahi, m.j + m.size, bhi)
                ELSE 0)

\* SequenceMatcher.ratio() is 2.0 * matches / length, and 1.0 when length is
\* 0: the pair <<matches, length>> it is computed from
RatioParts(a, b) ==
    [matches |-> MatchedCount(a, b, 1, Len(a), 1, Len(b)),
     length  |-> Len(a) + Len(b)]

\* The triples <<n, matches, length>>, n <= 30 and length <= 24, for which
\* the binary64 product n * (1 - 2.0 * matches / length) falls just below
\* the integer n * (length - 2 * matches) / length, so that int() gives one
\* less than the exact quotient.  No string of the module is longer than 30
\* characters and no two fragments compared have more than 24 together.
FloatShortfall ==
    {<<5, 2, 5>>, <<10, 2, 5>>, <<15, 2, 5>>, <<20, 2, 5>>,
     <<25, 2, 5>>, <<30, 2, 5>>, <<5, 4, 10>>, <<10, 4, 10>>,
     <<15, 4, 10>>, <<20, 4, 10>>, <<25, 4, 10>>, <<30, 4, 10>>,
     <<6, 5, 12>>, <<12, 5, 12>>, <<18, 5, 12>>, <<24, 5, 12>>,
     <<30, 5, 12>>, <<13, 5, 13>>, <<26, 5, 13>>, <<13, 6, 13>>,
     <<26, 6, 13>>, <<5, 6, 15>>, <<10, 6, 15>>, <<15, 6, 15>>,
     <<20, 6, 15>>, <<25, 6, 15>>, <<30, 6, 15>>, <<15, 7, 15>>,
     <<30, 7, 15>>, <<17, 3, 17>>, <<17, 6, 17>>, <<5, 8, 20>>,
     <<10, 8, 20>>, <<15, 8, 20>>, <<20, 8, 20>>, <<25, 8, 20>>,
     <<30, 8, 20>>, <<10, 9, 20>>, <<20, 9, 20>>, <<30, 9, 20>>,
     <<11, 9, 22>>, <<22, 9, 22>>, <<23, 9, 23>>, <<23, 11, 23>>,
     <<12, 5, 24>>, <<24, 5, 24>>, <<6, 10, 24>>, <<12, 10, 24>>,
     <<18, 10, 24>>, <<24, 10, 24>>, <<30, 10, 24>>}

\* TruncatedProduct with the ratio taken as matches / length
TruncatedProductHalf(n, matches, length) ==
    IF length = 0 THEN 0
    ELSE (n * (length - matches)) \div length

\* int(n * (1 - ratio)) with ratio = 2.0 * matches / length
TruncatedProduct(n, matches, length) ==
    IF length = 0 THEN 0
    ELSE ((n * (length - 2 * matches)) \div length)
         - (IF <<n, matches, length>> \in FloatShortfall THEN 1 ELSE 0)

\* edit_distance(a, b)
edit_distance(a, b) ==
    LET r == RatioParts(extract_apa_title(a), extract_apa_title(b))
    IN  TruncatedProduct(Max(Len(a), Len(b)), r.matches, r.length)

(***************************************************************************)
(* The lookup sources.  What the network and the browser answer is the     *)
(* environment's choice; what the program makes of an answer is code.      *)
(***************************************************************************)

\* the distance stored for a reference that was not found
NOT_FOUND == 999999

\* the distance stored for a reference without a year
NO_YEAR == 999998

sNoYearFound == <<"N", "o", " ", "Y", "e", "a", "r", " ", "F", "o", "u", "n", "d">>
sNotFound == <<"N", "o", "t", " ", "F", "o", "u", "n", "d">>
sError == <<"E", "r", "r", "o", "r">>

\* check_dblp's "authors" comprehension: the texts of the author entries; an
\* "author" value that is not a list of entries (DBLP sends a single object
\* for a single author) makes the comprehension raise, and authors is []
AuthorTexts(info) ==
    IF info.author_is_list THEN info.authors ELSE <<>>

\* ", ".join([a for a in authors if a])
AuthorStr(info) ==
    Join(<<",", " ">>, SelectSeq(AuthorTexts(info), LAMBDA a : a # <<>>))

\* f"{author_str} ({year}). {title}. {venue}."
DblpCitation(info) ==
    AuthorStr(info) \o <<" ", "(">> \o info.year \o <<")", ".", " ">>
    \o info.title \o <<".", " ">> \o info.venue \o <<".">>

\* check_dblp(reference) when the request is answered by resp: None (found
\* FALSE) when the request raises or there is no hit, else the citation made
\* from the first hit
check_dblp(reference, resp) ==
    IF resp.raises THEN [found |-> FALSE, citation |-> <<>>]
    ELSE IF resp.hits = <<>> THEN [found |-> FALSE, citation |-> <<>>]
    ELSE [found |-> TRUE, citation |-> DblpCitation(resp.hits[1])]

\* `if dblp_citation:` : neither None nor the empty string
Truthy(r) == r.found /\ r.citation # <<>>

\* get_citation_from_scholar with the sentinel of the other failure kind on
\* an empty citation list
get_citation_from_scholar_sentinel(ref, page) ==
    LET error_ == [citation |-> sError, source |-> "Error", dist |-> NOT_FOUND]
    IN  IF page.get_raises THEN error_
        ELSE IF page.first_wait = "timeout"
             THEN [citation |-> sNotFound, source |-> "Error", dist |-> NOT_FOUND]
        ELSE IF page.first_wait = "captcha" /\ ~page.captcha_cleared THEN error_
        ELSE IF page.click_raises THEN error_
        ELSE IF Len(page.gs_citr) = 0
             THEN [citation |-> sNotFound, source |-> "Error", dist |-> NO_YEAR]
        ELSE IF Len(page.gs_citr) < 2 THEN error_
        ELSE [citation |-> page.gs_citr[2], source |-> "Scholar",
              dist |-> edit_distance(normalize_reference(ref),
                                     normalize_reference(page.gs_citr[2]))]

\* get_citation_from_scholar(driver, ref, captcha_time) when the browser
\* behaves as page says
get_citation_from_scholar(ref, page) ==
    LET not_found_ == [citation |-> sNotFound, source |-> "Error",
                       dist |-> NOT_FOUND]
        error_     == [citation |-> sError, source |-> "Error",
                       dist |-> NOT_FOUND]
    IN  IF page.get_raises THEN error_
        ELSE IF page.first_wait = "timeout" THEN not_found_
        ELSE IF page.first_wait = "captcha" /\ ~page.captcha_cleared
             THEN error_       \* TimeoutException, caught by the outer except
        ELSE IF page.click_raises THEN error_
        ELSE IF Len(page.gs_citr) = 0 THEN not_found_
        ELSE IF Len(page.gs_citr) < 2 THEN error_   \* IndexError on [1]
        ELSE LET apa_cite == page.gs_citr[2]
                 norm_ref == normalize_reference(ref)
                 norm_apa == normalize_reference(apa_cite)
             IN  [citation |-> apa_cite, source |-> "Scholar",
                  dist |-> edit_distance(norm_ref, norm_apa)]

(***************************************************************************)
(* The inputs the model draws from.                                        *)
(***************************************************************************)

\* the longest reference list given to check_references
MaxRefs == 2

sDoe == <<"D", "o", "e">>
sRoe == <<"R", "o", "e">>
sPoe == <<"P", "o", "e">>
sAb == <<"A", "b">>
sCd == <<"C", "d">>
sJ == <<"J">>
sK == <<"K">>
s2019 == <<"2", "0", "1", "9">>
s2020 == <<"2", "0", "2", "0">>

\* how a reference writes its year: in parentheses, bare, not at all, with
\* five digits, glued to a word
YearForms ==
    {<<" ", "(">> \o s2019 \o <<")">>,
     <<" ">> \o s2019,
     <<>>,
     <<" ", "(">> \o s2019 \o <<"9", ")">>,
     <<" ", "x">> \o s2019}

\* "Doe<year>. Ab. J."
RefPool ==
    {sDoe \o y \o <<".", " ">> \o sAb \o <<".", " ">> \o sJ \o <<".">> :
        y \in YearForms}

RefLists == UNION {[1..n -> RefPool] : n \in 0..MaxRefs}

InfoSame == [author_is_list |-> TRUE, authors |-> <<sDoe>>, year |-> s2019,
             title |-> sAb, venue |-> sJ]
InfoOther == [author_is_list |-> TRUE, authors |-> <<sRoe, <<>>, sPoe>>,
              year |-> s2020, title |-> sCd, venue |-> sK]
InfoSingle == [author_is_list |-> FALSE, authors |-> <<>>, year |-> s2019,
               title |-> sAb, venue |-> sJ]

\* what the DBLP request can do: raise (transport error, HTTP error status,
\* malformed JSON), answer without hits, answer with a hit
DblpResponses ==
    {[raises |-> TRUE, hits |-> <<>>], [raises |-> FALSE, hits |-> <<>>]}
    \cup {[raises |-> FALSE, hits |-> <<i>>] :
            i \in {InfoSame, InfoOther, InfoSingle}}

CiteSame == DblpCitation(InfoSame)
CiteOther == DblpCitation(InfoOther)

PageOk(cites) == [get_raises |-> FALSE, first_wait |-> "results",
                  captcha_cleared |-> FALSE, click_raises |-> FALSE,
                  gs_citr |-> cites]

\* what the browser can do on a Scholar search
ScholarPages ==
    {[PageOk(<<>>) EXCEPT !.get_raises = TRUE],
     [PageOk(<<>>) EXCEPT !.first_wait = "timeout"],
     [PageOk(<<>>) EXCEPT !.first_wait = "captcha"],
     [PageOk(<<CiteOther, CiteSame>>) EXCEPT !.first_wait = "captcha",
                                             !.captcha_cleared = TRUE],
     [PageOk(<<>>) EXCEPT !.click_raises = TRUE],
     PageOk(<<>>),
     PageOk(<<CiteSame>>),
     PageOk(<<CiteSame, CiteOther>>),
     PageOk(<<CiteOther, CiteSame, CiteOther>>)}

\* the environment's side of a lookup, as `calls` records it: DBLP answered
\* with at least one hit
DblpHasHit(resp) == ~resp.raises /\ resp.hits # <<>>

\* the environment's side of a lookup, as `calls` records it: the search
\* page came up, any challenge was cleared, and the citation pop-up listed
\* the APA variant (its second entry)
PageHasCitation(page) ==
    /\ ~page.get_raises
    /\ page.first_wait # "timeout"
    /\ (page.first_wait = "captcha" => page.captcha_cleared)
    /\ ~page.click_raises
    /\ Len(page.gs_citr) >= 2

\* values of --max_edit_distance (default 30)
Thresholds == {-1, 0, 30}

(***************************************************************************)
(* report_results / process_references: the four frames, as the sequences  *)
(* of their row labels (row i is record i of the input).                   *)
(***************************************************************************)

Rows(n) == [i \in 1..n |-> i]

\* df[df["EditDistance"] == 999999]
NotFoundRows(dists) ==
    SelectSeq(Rows(Len(dists)), LAMBDA i : dists[i] = 999999)

\* NoYearRows selecting on the other sentinel
NoYearRowsOtherSentinel(dists) ==
    SelectSeq(Rows(Len(dists)), LAMBDA i : dists[i] = 999999)

\* df[df["EditDistance"] == 999998]
NoYearRows(dists) ==
    SelectSeq(Rows(Len(dists)), LAMBDA i : dists[i] = 999998)

\* df[(df["EditDistance"] != 999999) & (df["EditDistance"] != 999998)]
EvaluatedRows(dists) ==
    SelectSeq(Rows(Len(dists)),
              LAMBDA i : dists[i] # 999999 /\ dists[i] # 999998)

\* .sort_values(by="EditDistance", ascending=False): the default sort is not
\* stable, so rows of equal distance come in any order
SortedDescending(dists, rows) ==
    LET members == {rows[k] : k \in 1..Len(rows)}
    IN  {f \in [1..Len(rows) -> members] :
            /\ \A p, q \in 1..Len(rows) : p # q => f[p] # f[q]
            /\ \A p, q \in 1..Len(rows) : p < q => dists[f[p]] >= dists[f[q]]}

\* the orders `filtered` can have
FilteredOrders(dists) == SortedDescending(dists, EvaluatedRows(dists))

\* FlaggedRows with >= for >
FlaggedRowsInclusive(dists, filteredRows, threshold) ==
    SelectSeq(filteredRows, LAMBDA i : dists[i] >= threshold)

\* filtered[filtered["EditDistance"] > args.max_edit_distance]
FlaggedRows(dists, filteredRows, threshold) ==
    SelectSeq(filteredRows, LAMBDA i : dists[i] > threshold)

(***************************************************************************)
(* check_references, one step per call that leaves the program.            *)
(***************************************************************************)

Append3(cite, source, dist) ==
    /\ citations' = Append(citations, cite)
    /\ sources' = Append(sources, source)
    /\ edit_distances' = Append(edit_distances, dist)

\* driver = get_webdriver(browser); driver.set_window_size(800, 800)
GetWebdriver ==
    /\ pc = "start"
    /\ \E outcome \in {"ok", "no_browser", "window_error"} :
          /\ driver' = IF outcome = "no_browser" THEN "none" ELSE "open"
          /\ pc' = IF outcome = "ok" THEN "loop" ELSE "raised"
    /\ UNCHANGED <<references, idx, citations, sources, edit_distances, calls>>
    /\ UNCHANGED <<reportVars, distVars, pdfVars, cacheVars>>

\* one pass of the loop for a reference without a year token
NoYearStep ==
    /\ pc = "loop"
    /\ idx <= Len(references)
    /\ ~HasYearToken(references[idx])
    /\ Append3(sNoYearFound, "Error", NO_YEAR)
    /\ idx' = idx + 1
    /\ UNCHANGED <<pc, references, driver, calls>>
    /\ UNCHANGED <<reportVars, distVars, pdfVars, cacheVars>>

\* the query check_references gives check_dblp
DblpQuery(ref) ==
    LET title == extract_apa_title(ref)
    IN  IF title # <<>> THEN title ELSE ref

\* DblpStep without the `continue` after a DBLP hit
DblpStepFallsThrough ==
    /\ pc = "loop"
    /\ idx <= Len(references)
    /\ HasYearToken(references[idx])
    /\ \E resp \in DblpResponses :
       \E dblp_citation \in {check_dblp(DblpQuery(references[idx]), resp)} :
          /\ calls' = Append(calls, [ref |-> idx, source |-> "DBLP",
                                     hit |-> DblpHasHit(resp)])
          /\ IF Truthy(dblp_citation)
             THEN \E norm_ref \in {normalize_reference(references[idx])},
                     norm_dblp \in
                        {normalize_reference(dblp_citation.citation)} :
                     \E dist \in {edit_distance(norm_ref, norm_dblp)} :
                        Append3(dblp_citation.citation, "DBLP", dist)
             ELSE UNCHANGED <<citations, sources, edit_distances>>
    /\ pc' = "scholar"
    /\ UNCHANGED <<references, driver, idx>>
    /\ UNCHANGED <<reportVars, distVars, pdfVars, cacheVars>>

\* one pass of the loop up to the `continue` after a DBLP hit, or up to the
\* call of get_citation_from_scholar
DblpStep ==
    /\ pc = "loop"
    /\ idx <= Len(references)
    /\ HasYearToken(references[idx])
    /\ \E resp \in DblpResponses :
       \E dblp_query \in {DblpQuery(references[idx])} :
       \E dblp_citation \in {check_dblp(dblp_query, resp)} :
          /\ calls' = Append(calls, [ref |-> idx, source |-> "DBLP",
                                     query |-> dblp_query,
                                     hit |-> Truthy(dblp_citation)])
          /\ IF Truthy(dblp_citation)
             THEN /\ \E norm_ref \in {normalize_reference(references[idx])},
                        norm_dblp \in
                           {normalize_reference(dblp_citation.citation)} :
                        \E dist \in {edit_distance(norm_ref, norm_dblp)} :
                           Append3(dblp_citation.citation, "DBLP", dist)
                  /\ idx' = idx + 1
                  /\ pc' = "loop"
             ELSE /\ UNCHANGED <<citations, sources, edit_distances, idx>>
                  /\ pc' = "scholar"
    /\ UNCHANGED <<references, driver>>
    /\ UNCHANGED <<reportVars, distVars, pdfVars, cacheVars>>

\* the rest of the pass: get_citation_from_scholar and the three appends
ScholarStep ==
    /\ pc = "scholar"
    /\ \E page \in ScholarPages :
       \E r \in {get_citation_from_scholar(references[idx], page)} :
          /\ calls' = Append(calls, [ref |-> idx, source |-> "Scholar",
                                     query |-> references[idx],
                                     hit |-> r.source = "Scholar"])
          /\ Append3(r.citation, r.source, r.dist)
    /\ idx' = idx + 1
    /\ pc' = "loop"
    /\ UNCHANGED <<references, driver>>
    /\ UNCHANGED <<reportVars, distVars, pdfVars, cacheVars>>

\* a pass of the loop ends with an exception that leaves check_references:
\* KeyboardInterrupt (Ctrl-C while a request or the wait for the captcha is
\* under way) is not an Exception, so the `except Exception` clauses of
\* check_dblp and get_citation_from_scholar do not catch it, and the loop
\* is in no try statement
Interrupted ==
    /\ pc \in {"loop", "scholar"}
    /\ idx <= Len(references)
    /\ pc' = "interrupted"
    /\ UNCHANGED <<pipelineVars, reportVars, distVars, pdfVars, cacheVars>>

\* after the loop: driver.close() and the return
CloseDriver ==
    /\ pc = "loop"
    /\ idx > Len(references)
    /\ driver' = "closed"
    /\ pc' = "returned"
    /\ UNCHANGED <<references, idx, citations, sources, edit_distances, calls>>
    /\ UNCHANGED <<reportVars, distVars, pdfVars, cacheVars>>

\* report_results(df, args, term) on the records held
ReportResults ==
    /\ pc = "returned"
    /\ \E threshold \in Thresholds, f \in FilteredOrders(edit_distances) :
          /\ max_edit_distance' = threshold
          /\ not_found' = NotFoundRows(edit_distances)
          /\ no_year' = NoYearRows(edit_distances)
          /\ filtered' = f
          /\ flagged' = FlaggedRows(edit_distances, f, threshold)
    /\ pc' = "reported"
    /\ UNCHANGED <<pipelineVars, distVars, pdfVars, cacheVars>>

\* df = None, and a DataFrame as its columns and its rows
NoFrame == [is_none |-> TRUE, columns |-> {}, rows |-> <<>>]

Frame(columns, rows) == [is_none |-> FALSE, columns |-> columns, rows |-> rows]

\* os.path.exists(csv_path) is False
NoFile == [exists |-> FALSE, parses |-> FALSE, columns |-> {}, rows |-> <<>>]

IdleCache ==
    /\ args = [overwrite_csv |-> FALSE, references_page_range |-> <<>>]
    /\ csv = NoFile
    /\ df = NoFrame
    /\ saved = NoFrame
    /\ recomputed = FALSE

IdleReport ==
    /\ max_edit_distance = 30
    /\ not_found = <<>>
    /\ no_year = <<>>
    /\ filtered = <<>>
    /\ flagged = <<>>

IdleDist ==
    /\ arg_a = <<>>
    /\ arg_b = <<>>
    /\ dist_ab = 0
    /\ dist_ba = 0
    /\ dist_aa = 0

IdlePdf ==
    /\ pages = <<>>
    /\ page_range = [found |-> FALSE, pages |-> <<>>]
    /\ segmented = <<>>

IdlePipeline ==
    /\ references = <<>>
    /\ idx = 1
    /\ citations = <<>>
    /\ sources = <<>>
    /\ edit_distances = <<>>
    /\ driver = "none"
    /\ calls = <<>>

\* main() up to the call of check_references, with the references extracted
Init ==
    /\ pc = "start"
    /\ references \in RefLists
    /\ idx = 1
    /\ citations = <<>>
    /\ sources = <<>>
    /\ edit_distances = <<>>
    /\ driver = "none"
    /\ calls = <<>>
    /\ IdleReport
    /\ IdleDist
    /\ IdleCache
    /\ IdlePdf

Next ==
    \/ GetWebdriver
    \/ NoYearStep
    \/ DblpStep
    \/ ScholarStep
    \/ Interrupted
    \/ CloseDriver
    \/ ReportResults

Spec == Init /\ [][Next]_vars

(***************************************************************************)
(* The classifier on any record list: report_results is also given the     *)
(* records of a stored result file, whose distances are whatever the file  *)
(* holds.  Only the EditDistance column decides the frames.                *)
(***************************************************************************)

\* the longest record list classified
MaxRows == 4

DistPool == {0, 30, 31, NO_YEAR, NOT_FOUND}

DistLists == UNION {[1..n -> DistPool] : n \in 0..MaxRows}

\* process_references(args, references, citations, sources, edit_distances):
\* the same four frames, returned instead of printed
ProcessReferences ==
    /\ pc = "returned"
    /\ \E threshold \in Thresholds, f \in FilteredOrders(edit_distances) :
          /\ max_edit_distance' = threshold
          /\ not_found' = NotFoundRows(edit_distances)
          /\ no_year' = NoYearRows(edit_distances)
          /\ filtered' = f
          /\ flagged' = FlaggedRows(edit_distances, f, threshold)
    /\ pc' = "processed"
    /\ UNCHANGED <<pipelineVars, distVars, pdfVars, cacheVars>>

InitClassify ==
    /\ pc = "returned"
    /\ edit_distances \in DistLists
    /\ references = <<>>
    /\ idx = 1
    /\ citations = <<>>
    /\ sources = <<>>
    /\ driver = "closed"
    /\ calls = <<>>
    /\ IdleReport
    /\ IdleDist
    /\ IdleCache
    /\ IdlePdf

NextClassify ==
    \/ ReportResults
    \/ ProcessReferences

SpecClassify == InitClassify /\ [][NextClassify]_vars

(***************************************************************************)
(* edit_distance as a function of two citation strings.                    *)
(***************************************************************************)

\* the longest author prefix of a citation string scored
MaxAuthor == 4

\* the strings over {a, b} of length n
AuthorsOfLen(n) == [1..n -> {"a", "b"}]

Authors == UNION {AuthorsOfLen(n) : n \in 0..MaxAuthor}

\* what follows the author: nothing, a year, or a year, a title and a venue
CiteForms ==
    {<<>>,
     <<"(", "2", "0", "0", "0", ")">>,
     <<" ", "(", "2", "0", "0", "0", ")", ".", " ", "b", ".", " ", "v">>}

CitePool == {a \o f : a \in Authors, f \in CiteForms}

\* dist = edit_distance(a, b), and the same call with the arguments swapped
\* and with the first argument twice
EditDistanceCall ==
    /\ pc = "scoring"
    /\ dist_ab' = edit_distance(arg_a, arg_b)
    /\ dist_ba' = edit_distance(arg_b, arg_a)
    /\ dist_aa' = edit_distance(arg_a, arg_a)
    /\ pc' = "scored"
    /\ UNCHANGED <<arg_a, arg_b, pipelineVars, reportVars, pdfVars, cacheVars>>

InitDist ==
    /\ pc = "scoring"
    /\ arg_a \in CitePool
    /\ arg_b \in CitePool
    /\ dist_ab = 0
    /\ dist_ba = 0
    /\ dist_aa = 0
    /\ IdlePipeline
    /\ IdleCache
    /\ IdleReport
    /\ IdlePdf

NextDist == EditDistanceCall

SpecDist == InitDist /\ [][NextDist]_vars

(***************************************************************************)
(* Properties of check_references and of the pipeline (Spec).              *)
(***************************************************************************)

\* the maximal runs lo..hi of word characters (letters, digits, underscore)
\* of a text: its tokens
Tokens(text) ==
    {<<lo, hi>> \in (1..Len(text)) \X (1..Len(text)) :
        /\ lo <= hi
        /\ \A k \in lo..hi : IsWord(text[k])
        /\ (lo > 1 => ~IsWord(text[lo - 1]))
        /\ (hi < Len(text) => ~IsWord(text[hi + 1]))}

\* the text has a token made of exactly four digits
ContainsYearToken(text) ==
    \E t \in Tokens(text) :
        /\ t[2] - t[1] = 3
        /\ \A k \in t[1]..t[2] : text[k] \in Digits

\* the text has a four-digit year in parentheses
ContainsParenYear(text) ==
    \E p \in 1..Len(text) :
        /\ p + 5 <= Len(text)
        /\ text[p] = "(" /\ text[p + 5] = ")"
        /\ \A k \in (p + 1)..(p + 4) : text[k] \in Digits

\* the lookups made for reference i
CallsFor(i) == {k \in 1..Len(calls) : calls[k].ref = i}

\* label i is a row of the frame
InFrame(i, frame) == \E k \in 1..Len(frame) : frame[k] = i

\* C1: a reference without a 4-digit year token gets the record (Error,
\* NO_YEAR), and no lookup, DBLP or Scholar, is ever made for it.
Thm_C1 ==
    \A i \in 1..Len(references) :
        ~ContainsYearToken(references[i]) =>
            /\ CallsFor(i) = {}
            /\ i <= Len(edit_distances) =>
                  /\ sources[i] = "Error"
                  /\ edit_distances[i] = 999998

Wit_C1 ==
    /\ pc = "returned"
    /\ \E i, j \in 1..Len(references) :
          /\ ~ContainsYearToken(references[i])
          /\ edit_distances[i] = 999998
          /\ CallsFor(i) = {}
          /\ CallsFor(j) # {}

\* C2: a Scholar lookup is only ever made right after a DBLP lookup for the
\* same reference that gave nothing, and a reference whose DBLP lookup gave
\* a citation gets no Scholar lookup and the source DBLP.
Thm_C2 ==
    /\ \A k \in 1..Len(calls) :
          calls[k].source = "Scholar" =>
              /\ k > 1
              /\ calls[k - 1].source = "DBLP"
              /\ calls[k - 1].ref = calls[k].ref
              /\ ~calls[k - 1].hit
    /\ \A k \in 1..Len(calls) :
          (calls[k].source = "DBLP" /\ calls[k].hit) =>
              /\ \A m \in CallsFor(calls[k].ref) : calls[m].source = "DBLP"
              /\ Len(sources) >= calls[k].ref
              /\ sources[calls[k].ref] = "DBLP"

Wit_C2 ==
    /\ pc = "returned"
    /\ \E k, m \in 1..Len(calls) :
          /\ calls[k].source = "DBLP" /\ calls[k].hit
          /\ sources[calls[k].ref] = "DBLP"
          /\ calls[m].source = "Scholar"

\* every lookup made for reference i failed
AllLookupsFailed(i) ==
    /\ CallsFor(i) # {}
    /\ \A k \in CallsFor(i) : ~calls[k].hit

\* C3: whatever the lookups do, check_references does not abort once the
\* loop runs: it returns one record per reference, record i is the record
\* of reference i, and a reference whose lookups all failed has the record
\* (Error, NOT_FOUND).
Thm_C3 ==
    /\ pc = "raised" => (calls = <<>> /\ edit_distances = <<>>)
    /\ pc \in {"loop", "scholar"} =>
          /\ Len(edit_distances) = idx - 1
          /\ Len(sources) = idx - 1
          /\ Len(citations) = idx - 1
    /\ pc \in {"returned", "reported"} =>
          /\ Len(edit_distances) = Len(references)
          /\ Len(sources) = Len(references)
          /\ Len(citations) = Len(references)
    /\ \A i \in 1..Len(edit_distances) :
          /\ AllLookupsFailed(i) =>
                (sources[i] = "Error" /\ edit_distances[i] = 999999)
          /\ (\E k \in CallsFor(i) : calls[k].hit) =>
                (sources[i] \in {"DBLP", "Scholar"})
          /\ CallsFor(i) = {} <=> ~ContainsYearToken(references[i])

Wit_C3 ==
    /\ pc = "returned"
    /\ Len(references) >= 2
    /\ AllLookupsFailed(1)
    /\ Cardinality(CallsFor(1)) = 2
    /\ edit_distances[1] = 999999
    /\ sources[2] \in {"DBLP", "Scholar"}

\* C4: the distance stored with a citation that a source returned is the
\* scorer's distance between the original reference text and the citation,
\* so it is above 0 when their author/title fragments differ.
Claim_C4 ==
    \A i \in 1..Len(edit_distances) :
        sources[i] \in {"DBLP", "Scholar"} =>
            /\ edit_distances[i] = edit_distance(references[i], citations[i])
            /\ extract_apa_title(references[i]) # extract_apa_title(citations[i])
                  => edit_distances[i] > 0

\* C6 as stated: a reference without a parenthesized year gets the record
\* (NO_YEAR, Error), which is a row of no_year only.
Claim_C6 ==
    pc = "reported" =>
        \A i \in 1..Len(references) :
            ~ContainsParenYear(references[i]) =>
                /\ edit_distances[i] = 999998
                /\ sources[i] = "Error"
                /\ InFrame(i, no_year)
                /\ ~InFrame(i, filtered)
                /\ ~InFrame(i, flagged)

\* C6, amended: a reference without a 4-digit year token, in parentheses or
\* not, gets the record (NO_YEAR, Error), which is a row of no_year only.
Thm_C6 ==
    pc = "reported" =>
        \A i \in 1..Len(references) :
            ~ContainsYearToken(references[i]) =>
                /\ edit_distances[i] = 999998
                /\ sources[i] = "Error"
                /\ InFrame(i, no_year)
                /\ ~InFrame(i, not_found)
                /\ ~InFrame(i, filtered)
                /\ ~InFrame(i, flagged)

Wit_C6 ==
    /\ pc = "reported"
    /\ \E i, j \in 1..Len(references) :
          /\ ~ContainsYearToken(references[i])
          /\ InFrame(i, no_year)
          /\ ~ContainsParenYear(references[j])
          /\ InFrame(j, filtered)

(***************************************************************************)
(* Properties of the classifier (SpecClassify).                            *)
(***************************************************************************)

\* the row labels a frame holds
RowSet(frame) == {frame[k] : k \in 1..Len(frame)}

\* C5: no_year, not_found and evaluated (`filtered`) hold the rows with
\* distance NO_YEAR, with distance NOT_FOUND and all the others; they are
\* pairwise disjoint and their sizes add up to the number of records;
\* flagged holds exactly the evaluated rows with a distance above the
\* threshold; evaluated is in descending order of distance.
Thm_C5 ==
    pc \in {"reported", "processed"} =>
        LET n == Len(edit_distances)
            d == edit_distances
        IN  /\ RowSet(no_year) = {i \in 1..n : d[i] = 999998}
            /\ RowSet(not_found) = {i \in 1..n : d[i] = 999999}
            /\ RowSet(filtered) = {i \in 1..n : d[i] < 999998 \/ d[i] > 999999}
            /\ RowSet(no_year) \cap RowSet(not_found) = {}
            /\ RowSet(no_year) \cap RowSet(filtered) = {}
            /\ RowSet(not_found) \cap RowSet(filtered) = {}
            /\ Len(no_year) + Len(not_found) + Len(filtered) = n
            /\ RowSet(flagged) =
                  {i \in RowSet(filtered) : d[i] > max_edit_distance}
            /\ Len(flagged) = Cardinality(RowSet(flagged))
            /\ \A p, q \in 1..Len(filtered) :
                  p < q => d[filtered[p]] >= d[filtered[q]]

Wit_C5 ==
    /\ pc = "reported"
    /\ Len(no_year) = 1
    /\ Len(not_found) = 1
    /\ Len(flagged) = 1
    /\ Len(filtered) = 2
    /\ edit_distances[filtered[1]] > edit_distances[filtered[2]]
    /\ filtered[1] > filtered[2]

(***************************************************************************)
(* Properties of edit_distance (SpecDist).                                 *)
(***************************************************************************)

\* C7: edit_distance(a, b) = edit_distance(b, a).
Claim_C7 == pc = "scored" => dist_ab = dist_ba

\* C8: edit_distance(x, x) = 0 for every citation string x.
Thm_C8 == pc = "scored" => dist_aa = 0

Wit_C8 ==
    /\ pc = "scored"
    /\ Len(extract_apa_title(arg_a)) >= 3
    /\ dist_aa = 0
    /\ dist_ab > 0

(***************************************************************************)
(* find_references_section_by_text.  Page i of the source (0-based) is     *)
(* pages[i + 1]; the page numbers returned are the source's, 0-based.      *)
(***************************************************************************)

kwReferences == <<"r", "e", "f", "e", "r", "e", "n", "c", "e", "s">>
kwAppendix == <<"a", "p", "p", "e", "n", "d", "i", "x">>

\* s.split("\n", 1)[0]
BeforeNewline(s) ==
    LET nl == {k \in 1..Len(s) : s[k] = "\n"}
    IN  IF nl = {} THEN s
        ELSE SubSeq(s, 1, (CHOOSE k \in nl : \A m \in nl : k <= m) - 1)

\* text.strip().split("\n", 1)[0].strip().lower()
first_line(text) == Lower(Strip(BeforeNewline(Strip(text))))

\* the first loop: the first page whose first line starts with "references",
\* -1 for None
StartPage(pgs) ==
    LET hits == {i \in 0..(Len(pgs) - 1) :
                    StartsWith(first_line(pgs[i + 1]), kwReferences)}
    IN  IF hits = {} THEN -1
        ELSE CHOOSE i \in hits : \A j \in hits : i <= j

\* EndPage with end_page = i for end_page = i - 1
EndPageInclusive(pgs, start_page) ==
    LET hits == {i \in (start_page + 1)..(Len(pgs) - 1) :
                    StartsWith(first_line(pgs[i + 1]), kwAppendix)}
    IN  IF hits = {} THEN Len(pgs) - 1
        ELSE CHOOSE i \in hits : \A j \in hits : i <= j

\* the second loop and the default: the page before the first page after
\* start_page whose first line starts with "appendix", else the last page
EndPage(pgs, start_page) ==
    LET hits == {i \in (start_page + 1)..(Len(pgs) - 1) :
                    StartsWith(first_line(pgs[i + 1]), kwAppendix)}
    IN  IF hits = {} THEN Len(pgs) - 1
        ELSE (CHOOSE i \in hits : \A j \in hits : i <= j) - 1

\* list(range(lo, hi + 1))
Range(lo, hi) == [k \in 1..(hi - lo + 1) |-> lo + k - 1]

\* find_references_section_by_text(pdf_name) on a PDF with the pages pgs
find_references_section_by_text(pgs) ==
    LET start_page == StartPage(pgs)
    IN  IF start_page = -1 THEN [found |-> FALSE, pages |-> <<>>]
        ELSE [found |-> TRUE,
              pages |-> Range(start_page, EndPage(pgs, start_page))]

\* the longest PDF scanned for its references section
MaxPages == 7

\* a page that opens, after blank space, with the heading in capitals
pgReferences == <<" ", "\n", " ", "R", "E", "F", "E", "R", "E", "N", "C",
                  "E", "S", " ", "\n", "x">>
\* a page that opens with a longer heading
pgAppendix == <<"A", "p", "p", "e", "n", "d", "i", "x", " ", "A">>
\* a page with both words, neither on its first line
pgBody == <<"x", "\n", "R", "e", "f", "e", "r", "e", "n", "c", "e", "s",
            "\n", "A", "p", "p", "e", "n", "d", "i", "x">>
\* a page without text
pgEmpty == <<>>

PagePool == {pgReferences, pgAppendix, pgBody, pgEmpty}

Documents == UNION {[1..n -> PagePool] : n \in 0..MaxPages}

FindReferencesSection ==
    /\ pc = "locating"
    /\ page_range' = find_references_section_by_text(pages)
    /\ pc' = "located"
    /\ UNCHANGED <<pages, segmented, pipelineVars, reportVars, distVars,
                   cacheVars>>

InitLocate ==
    /\ pc = "locating"
    /\ pages \in Documents
    /\ page_range = [found |-> FALSE, pages |-> <<>>]
    /\ segmented = <<>>
    /\ IdlePipeline
    /\ IdleReport
    /\ IdleDist
    /\ IdleCache

NextLocate == FindReferencesSection

SpecLocate == InitLocate /\ [][NextLocate]_vars

(***************************************************************************)
(* Properties of the locator (SpecLocate).                                 *)
(***************************************************************************)

\* the first line of a text that has a character other than whitespace,
\* without the whitespace around it and in lower case; empty when the text
\* has no such line
Heading(text) ==
    LET ink == {k \in 1..Len(text) : text[k] \notin Whitespace}
    IN  IF ink = {} THEN <<>>
        ELSE LET b   == CHOOSE k \in ink : \A m \in ink : k <= m
                 row == {k \in ink : \A m \in b..k : text[m] # "\n"}
                 e   == CHOOSE k \in row : \A m \in row : k >= m
             IN  [k \in 1..(e - b + 1) |-> LowerChar(text[b + k - 1])]

\* the 0-based numbers of the pages whose heading starts with the word
PagesHeaded(word) ==
    {i \in 0..(Len(pages) - 1) :
        /\ Len(Heading(pages[i + 1])) >= Len(word)
        /\ SubSeq(Heading(pages[i + 1]), 1, Len(word)) = word}

Least(S) == CHOOSE i \in S : \A j \in S : i <= j

\* C9: the result is 'not found' exactly when no page is headed
\* "references"; otherwise it is the ascending run of page numbers from the
\* first page headed "references" to the page before the first later page
\* headed "appendix", or to the last page when there is none.
Thm_C9 ==
    pc = "located" =>
        LET refs == PagesHeaded(kwReferences)
        IN  /\ page_range.found <=> refs # {}
            /\ refs # {} =>
                  LET first == Least(refs)
                      apps  == {i \in PagesHeaded(kwAppendix) : i > first}
                      last  == IF apps = {} THEN Len(pages) - 1
                               ELSE Least(apps) - 1
                  IN  /\ Len(page_range.pages) = last - first + 1
                      /\ \A k \in 1..Len(page_range.pages) :
                            page_range.pages[k] = first + k - 1

\* References heads page 3 and Appendix page 6: the range is [3, 4, 5]
Wit_C9 ==
    /\ pc = "located"
    /\ Len(pages) = 7
    /\ page_range.pages = <<3, 4, 5>>
    /\ PagesHeaded(kwReferences) # {}
    /\ Least(PagesHeaded(kwReferences)) = 3
    /\ PagesHeaded(kwAppendix) = {6}

(***************************************************************************)
(* extract_references.  The layout text of a page is what                  *)
(* page.extract_text(extraction_mode="layout") returns.                    *)
(***************************************************************************)

\* text.split("\n\n")[-1]: what follows the last of the separators found
\* from left to right
RECURSIVE LastBlock(_)
LastBlock(text) ==
    LET seps == {p \in 1..(Len(text) - 1) : text[p] = "\n" /\ text[p + 1] = "\n"}
    IN  IF seps = {} THEN text
        ELSE LastBlock(Drop(text, (CHOOSE p \in seps : \A q \in seps : p <= q) + 2))

\* SplitsAt with the lookahead left out: every newline splits
SplitsAtEveryNewline(block, p) == block[p] = "\n"

\* \n(?!\s{4,}) matches at p
SplitsAt(block, p) ==
    /\ block[p] = "\n"
    /\ ~(/\ p + 4 <= Len(block)
         /\ \A k \in 1..4 : IsSpace(block[p + k]))

\* re.split(r"\n(?!\s{4,})", block)
RECURSIVE SplitEntries(_)
SplitEntries(block) ==
    LET cuts == {p \in 1..Len(block) : SplitsAt(block, p)}
    IN  IF cuts = {} THEN <<block>>
        ELSE LET p == CHOOSE x \in cuts : \A y \in cuts : x <= y
             IN  <<SubSeq(block, 1, p - 1)>> \o SplitEntries(Drop(block, p + 1))

\* the test a candidate passes to be appended
Accepted(ref) ==
    /\ ref # <<>>
    /\ ~StartsWith(ref, <<" ", " ">>)
    /\ ~StartsWith(ref, <<"\n">>)

\* the strings one page adds to `references`
PageReferences(text) ==
    LET t    == SplitEntries(LastBlock(text))
        kept == SelectSeq(t, Accepted)
    IN  [k \in 1..Len(kept) |-> CollapseWhitespace(kept[k])]

\* extract_references(pdf_name, references_page_range) on a PDF with the
\* layout texts pgs; the page numbers of the range are 0-based
RECURSIVE extract_references(_, _)
extract_references(pgs, range) ==
    IF range = <<>> THEN <<>>
    ELSE PageReferences(pgs[Head(range) + 1])
         \o extract_references(pgs, Tail(range))

\* the most physical lines and page breaks of a layout text segmented
MaxLayoutLines == 4

\* a page break between two lines
PageBreak == <<"\f">>

\* the physical lines: empty, flush left, and indented by 1, 3, 4 and 5
\* spaces
LinePool ==
    {<<>>,
     <<"R", " ", "a">>,
     <<"S">>,
     <<" ", "c">>,
     <<" ", " ", " ", "c">>,
     <<" ", " ", " ", " ", "c", " ", " ", "d">>,
     <<" ", " ", " ", " ", " ", "e">>}

\* the pages of a sequence of lines and page breaks: each page's lines,
\* joined by newlines
RECURSIVE PagesOf(_, _)
PagesOf(toks, lines) ==
    IF toks = <<>> THEN <<Join(<<"\n">>, lines)>>
    ELSE IF Head(toks) = PageBreak
         THEN <<Join(<<"\n">>, lines)>> \o PagesOf(Tail(toks), <<>>)
    ELSE PagesOf(Tail(toks), Append(lines, Head(toks)))

LayoutDocuments ==
    {PagesOf(toks, <<>>) :
        toks \in UNION {[1..n -> LinePool \cup {PageBreak}] :
                            n \in 0..MaxLayoutLines}}

ExtractReferences ==
    /\ pc = "segmenting"
    /\ segmented' = extract_references(pages, page_range.pages)
    /\ pc' = "segmented"
    /\ UNCHANGED <<pages, page_range, pipelineVars, reportVars, distVars,
                   cacheVars>>

\* load_or_compute_results up to the call of extract_references, with the
\* range covering the document
InitSegment ==
    /\ pc = "segmenting"
    /\ pages \in LayoutDocuments
    /\ page_range = [found |-> TRUE, pages |-> Range(0, Len(pages) - 1)]
    /\ segmented = <<>>
    /\ IdlePipeline
    /\ IdleReport
    /\ IdleDist
    /\ IdleCache

NextSegment == ExtractReferences

SpecSegment == InitSegment /\ [][NextSegment]_vars

(***************************************************************************)
(* Properties of the segmenter (SpecSegment).                              *)
(***************************************************************************)

\* the last character of the physical line that holds position o
LineEnd(text, o) ==
    LET nl == {k \in o..Len(text) : text[k] = "\n"}
    IN  IF nl = {} THEN Len(text)
        ELSE (CHOOSE k \in nl : \A m \in nl : k <= m) - 1

\* a bibliography entry that wraps starts at position o of the page text: a
\* physical line starts at o with a character other than whitespace, no
\* blank line follows o on the page (the entry is in the page's last block,
\* the bibliography), and the next physical line is four or more spaces and
\* then text
WrappedEntryAt(text, o) ==
    /\ o \in 1..Len(text)
    /\ o = 1 \/ text[o - 1] = "\n"
    /\ text[o] \notin Whitespace
    /\ \A p \in o..(Len(text) - 1) : ~(text[p] = "\n" /\ text[p + 1] = "\n")
    /\ LET e == LineEnd(text, o)
       IN  /\ e + 6 <= Len(text)
           /\ \A k \in 2..5 : text[e + k] = " "
           /\ \E k \in (e + 6)..LineEnd(text, e + 2) :
                 text[k] \notin Whitespace

\* the entry's two physical lines joined, whitespace runs as single spaces
JoinedLines(text, o) ==
    LET e  == LineEnd(text, o)
        e2 == LineEnd(text, e + 2)
        ink == {k \in (e + 2)..e2 : text[k] \notin Whitespace}
        b2 == CHOOSE k \in ink : \A m \in ink : k <= m
    IN  CollapseWhitespace(SubSeq(text, o, e)) \o <<" ">>
        \o CollapseWhitespace(SubSeq(text, b2, e2))

\* the wrapped entries of the document: page and position
WrappedEntries ==
    {<<i, o>> \in (1..Len(pages)) \X (1..(3 * MaxLayoutLines + 20)) :
        WrappedEntryAt(pages[i], o)}

IsPrefix(p, s) == Len(p) <= Len(s) /\ SubSeq(s, 1, Len(p)) = p

\* C10: a bibliography entry that wraps onto a line indented by four or
\* more spaces is emitted as one reference string that holds both lines
\* joined, whitespace runs collapsed: there are exactly as many emitted
\* strings opening with the joined lines as there are entries with these
\* lines.
Thm_C10 ==
    pc = "segmented" =>
        \A w \in WrappedEntries :
            LET joined == JoinedLines(pages[w[1]], w[2])
            IN  Cardinality({m \in 1..Len(segmented) :
                                IsPrefix(joined, segmented[m])})
                = Cardinality({v \in WrappedEntries :
                                JoinedLines(pages[v[1]], v[2]) = joined})

\* two pages, the first of them with an entry wrapped onto a second line
Wit_C10 ==
    /\ pc = "segmented"
    /\ Len(pages) = 2
    /\ WrappedEntryAt(pages[1], 1)
    /\ segmented = <<<<"R", " ", "a", " ", "c", " ", "d">>, <<"S">>>>

(***************************************************************************)
(* load_or_compute_results: the stored result file, the page range, the    *)
(* segmenter and check_references, in the order the function calls them.   *)
(***************************************************************************)

\* required_cols
required_cols == {"StudentRef", "Source", "Citation", "EditDistance"}

sCached == <<"c", "a", "c", "h", "e", "d">>

\* a row of a stored file with the given columns
StoredRow(columns) ==
    [c \in columns |-> IF c = "EditDistance" THEN 31
                       ELSE IF c = "Source" THEN "DBLP"
                       ELSE sCached]

\* a file pd.read_csv parses: a header with the given columns and one row
StoredFile(columns) ==
    [exists |-> TRUE, parses |-> TRUE, columns |-> columns,
     rows |-> <<StoredRow(columns)>>]

\* a file of zero bytes: pd.read_csv raises EmptyDataError ("No columns to
\* parse from file")
EmptyFile == [exists |-> TRUE, parses |-> FALSE, columns |-> {}, rows |-> <<>>]

\* what can be at csv_path when the run starts: nothing, a file the program
\* wrote, the same with one more column, files without one of the required
\* columns, a file with the header alone of a single column, an empty file
CsvFiles ==
    {NoFile,
     StoredFile(required_cols),
     StoredFile(required_cols \cup {"Note"}),
     EmptyFile,
     [StoredFile({"StudentRef"}) EXCEPT !.rows = <<>>]}
    \cup {StoredFile(required_cols \ {c}) : c \in required_cols}

sReferencesHeading == <<"R", "e", "f", "e", "r", "e", "n", "c", "e", "s">>

refDoeYear == sDoe \o <<" ", "(">> \o s2019 \o <<")", ".", " ">> \o sAb
              \o <<".", " ">> \o sJ \o <<".">>
refDoeBare == sDoe \o <<".", " ">> \o sAb \o <<".", " ">> \o sJ \o <<".">>

\* a references page: the heading, a blank line, then the entries
ReferencesPage(entries) ==
    sReferencesHeading \o <<"\n", "\n">> \o Join(<<"\n">>, entries)

\* the PDFs given to load_or_compute_results; a page's text is the same in
\* both extraction modes
CachePdfs ==
    {<<pgBody, ReferencesPage(<<refDoeYear, refDoeBare>>)>>,
     <<ReferencesPage(<<refDoeYear>>), pgAppendix>>,
     <<pgBody>>}

\* int(s) for a string of decimal digits, 0 for the empty string
RECURSIVE DigitsValue(_)
DigitsValue(s) ==
    IF s = <<>> THEN 0
    ELSE 10 * DigitsValue(SubSeq(s, 1, Len(s) - 1))
         + (CHOOSE d \in 0..9 : ToString(d) = s[Len(s)])

\* parse_page_range(page_range_str) for strings of digits and "-": the
\* unpacking raises unless there are two parts, int() raises on an empty one
parse_page_range(page_range_str) ==
    LET dashes == {p \in 1..Len(page_range_str) : page_range_str[p] = "-"}
    IN  IF Cardinality(dashes) # 1 THEN [raises |-> TRUE, pages |-> <<>>]
        ELSE LET p     == CHOOSE x \in dashes : TRUE
                 start == SubSeq(page_range_str, 1, p - 1)
                 end   == Drop(page_range_str, p + 1)
             IN  IF start = <<>> \/ end = <<>>
                 THEN [raises |-> TRUE, pages |-> <<>>]
                 ELSE [raises |-> FALSE,
                       pages |-> Range(DigitsValue(start), DigitsValue(end))]

\* values of --references_page_range; <<>> is None, the option not given
PageRangeArgs == {<<>>, <<"1", "-", "1">>, <<"0", "-", "2">>, <<"1">>}

\* get_reference_page_range(args, term): "ok" with the pages, "exit" for
\* sys.exit(1), "raise" for an exception of parse_page_range
get_reference_page_range(a, pgs) ==
    IF a.references_page_range # <<>>
    THEN LET r == parse_page_range(a.references_page_range)
         IN  [outcome |-> IF r.raises THEN "raise" ELSE "ok", pages |-> r.pages]
    ELSE LET r == find_references_section_by_text(pgs)
         IN  [outcome |-> IF r.found THEN "ok" ELSE "exit", pages |-> r.pages]

\* pd.DataFrame({"StudentRef": ..., "Source": ..., "Citation": ...,
\* "EditDistance": ...})
ResultFrame(refs, srcs, cites, dists) ==
    Frame(required_cols,
          [i \in 1..Len(refs) |->
              [c \in required_cols |->
                  IF c = "StudentRef" THEN refs[i]
                  ELSE IF c = "Source" THEN srcs[i]
                  ELSE IF c = "Citation" THEN cites[i]
                  ELSE dists[i]]])

\* the `if os.path.exists(csv_path) and not args.overwrite_csv:` statement
LoadCsv ==
    /\ pc = "load"
    /\ IF csv.exists /\ ~args.overwrite_csv
       THEN IF ~csv.parses
            THEN /\ df' = NoFrame           \* pd.read_csv raises
                 /\ pc' = "raised"
            ELSE IF ~(required_cols \subseteq csv.columns)
            THEN /\ df' = NoFrame
                 /\ pc' = "loaded"
            ELSE /\ df' = Frame(csv.columns, csv.rows)
                 /\ pc' = "loaded"
       ELSE /\ df' = NoFrame
            /\ pc' = "loaded"
    /\ UNCHANGED <<args, csv, saved, recomputed>>
    /\ UNCHANGED <<pipelineVars, reportVars, distVars, pdfVars>>

\* `if df is None:` is false: return df
ReturnLoaded ==
    /\ pc = "loaded"
    /\ ~df.is_none
    /\ pc' = "df_returned"
    /\ UNCHANGED <<cacheVars, pipelineVars, reportVars, distVars, pdfVars>>

\* `if df is None:` is true: get_reference_page_range and extract_references,
\* up to the call of check_references; reader.pages[p_num] raises IndexError
\* for a page the PDF does not have.  page_range and references are the
\* values the two calls return.
ExtractStage ==
    /\ pc = "loaded"
    /\ df.is_none
    /\ recomputed' = TRUE
    /\ \E r \in {get_reference_page_range(args, pages)} :
          IF r.outcome = "exit"
          THEN /\ pc' = "exited"
               /\ UNCHANGED <<page_range, segmented, references>>
          ELSE IF r.outcome = "raise"
          THEN /\ pc' = "raised"
               /\ UNCHANGED <<page_range, segmented, references>>
          ELSE IF \E k \in 1..Len(r.pages) : r.pages[k] >= Len(pages)
          THEN /\ pc' = "raised"
               /\ page_range' = [found |-> TRUE, pages |-> r.pages]
               /\ UNCHANGED <<segmented, references>>
          ELSE \E refs \in {extract_references(pages, r.pages)} :
                  /\ pc' = "start"
                  /\ page_range' = [found |-> TRUE, pages |-> r.pages]
                  /\ segmented' = refs
                  /\ references' = refs
    /\ UNCHANGED <<args, csv, df, saved, pages>>
    /\ UNCHANGED <<idx, citations, sources, edit_distances, driver, calls>>
    /\ UNCHANGED <<reportVars, distVars>>

\* after check_references returned: the new frame, df.to_csv, return df
SaveCsv ==
    /\ pc = "returned"
    /\ df' = ResultFrame(references, sources, citations, edit_distances)
    /\ saved' = ResultFrame(references, sources, citations, edit_distances)
    /\ pc' = "df_returned"
    /\ UNCHANGED <<args, csv, recomputed>>
    /\ UNCHANGED <<pipelineVars, reportVars, distVars, pdfVars>>

\* main() up to the call of load_or_compute_results
InitCache ==
    /\ pc = "load"
    /\ args \in [overwrite_csv : BOOLEAN, references_page_range : PageRangeArgs]
    /\ csv \in CsvFiles
    /\ pages \in CachePdfs
    /\ df = NoFrame
    /\ saved = NoFrame
    /\ recomputed = FALSE
    /\ page_range = [found |-> FALSE, pages |-> <<>>]
    /\ segmented = <<>>
    /\ IdlePipeline
    /\ IdleReport
    /\ IdleDist

NextCache ==
    \/ LoadCsv
    \/ ReturnLoaded
    \/ ExtractStage
    \/ GetWebdriver
    \/ NoYearStep
    \/ DblpStep
    \/ ScholarStep
    \/ Interrupted
    \/ CloseDriver
    \/ SaveCsv

SpecCache == InitCache /\ [][NextCache]_vars

(***************************************************************************)
(* Properties of load_or_compute_results (SpecCache).                      *)
(***************************************************************************)

\* the run of load_or_compute_results is over: it returned, exited or raised
CacheRunEnded == pc \in {"df_returned", "exited", "raised", "interrupted"}

Columns4 == {"StudentRef", "Source", "Citation", "EditDistance"}

\* C11: when a stored result file exists, overwrite is not requested and the
\* file has the four columns, the run returns the stored records without
\* extracting references, looking anything up or acquiring a browser
\* session; when a required column is missing the run recomputes, and the
\* records it then returns are the ones it looked up and saved.
Claim_C11 ==
    (CacheRunEnded /\ csv.exists /\ ~args.overwrite_csv) =>
        /\ Columns4 \subseteq csv.columns =>
              /\ pc = "df_returned"
              /\ df.rows = csv.rows
              /\ ~recomputed
              /\ segmented = <<>>
              /\ calls = <<>>
              /\ driver = "none"
              /\ saved = NoFrame
        /\ ~(Columns4 \subseteq csv.columns) =>
              /\ recomputed
              /\ pc = "df_returned" =>
                    /\ Len(df.rows) = Len(references)
                    /\ \A i \in 1..Len(df.rows) :
                          /\ df.rows[i]["StudentRef"] = references[i]
                          /\ df.rows[i]["Source"] = sources[i]
                          /\ df.rows[i]["Citation"] = citations[i]
                          /\ df.rows[i]["EditDistance"] = edit_distances[i]
                    /\ saved = df

(***************************************************************************)
(* The browser session of check_references (Spec).                         *)
(***************************************************************************)

\* C12: the browser session is acquired before the first reference is
\* processed and held for the whole batch, and check_references never ends,
\* by returning or by raising, with the session still open.
Claim_C12 ==
    /\ (pc \in {"loop", "scholar"}) => driver = "open"
    /\ (citations # <<>> \/ calls # <<>>) => driver # "none"
    /\ (pc \in {"returned", "raised", "interrupted", "reported"}) =>
          driver # "open"

(***************************************************************************)
(* The scale and the rounding of edit_distance (SpecDist).                 *)
(***************************************************************************)

\* num / den rounded to the nearest integer, a tie to the even one, as
\* round() does; den > 0 and num >= 0
RoundedQuotient(num, den) ==
    LET q == num \div den
        r == num % den
    IN  IF 2 * r < den THEN q
        ELSE IF 2 * r > den THEN q + 1
        ELSE IF q % 2 = 0 THEN q ELSE q + 1

\* round(max(len(fa), len(fb)) * (1 - ratio)) for the fragments fa and fb,
\* ratio being 2 * matches / (len(fa) + len(fb)), and 1 for two empty
\* fragments
RoundedFragmentDistance(fa, fb) ==
    LET r == RatioParts(fa, fb)
    IN  IF r.length = 0 THEN 0
        ELSE RoundedQuotient(Max(Len(fa), Len(fb)) * (r.length - 2 * r.matches),
                             r.length)

\* C13: edit_distance(a, b) is the longer fragment's length times
\* (1 - ratio), rounded to the nearest integer, the fragments being the APA
\* fragments of a and b and ratio their sequence-similarity ratio.
Claim_C13 ==
    pc = "scored" =>
        dist_ab = RoundedFragmentDistance(extract_apa_title(arg_a),
                                          extract_apa_title(arg_b))

(***************************************************************************)
(* What the segmenter emits (SpecSegment).                                 *)
(***************************************************************************)

\* the string is made of whitespace alone (the empty string included)
OnlyWhitespace(str) == \A k \in 1..Len(str) : str[k] \in Whitespace

\* C14: every emitted reference string is non-empty, is not whitespace
\* alone, and comes from a candidate that did not start with indentation (a
\* space or a tab) or a newline; a whitespace run is emitted as one space,
\* so such a candidate would show as an emitted string that starts with a
\* space.
Claim_C14 ==
    pc = "segmented" =>
        \A m \in 1..Len(segmented) :
            /\ segmented[m] # <<>>
            /\ ~OnlyWhitespace(segmented[m])
            /\ segmented[m][1] \notin Whitespace

(***************************************************************************)
(* The distances of freshly computed records (Spec).                       *)
(***************************************************************************)

====
